---- MODULE Spec2Model ----
(***************************************************************************)
(* A model of src/server.py: the FHIRClient transport adapter (_request),  *)
(* the response classifier (_validate_fhir_response), the quality scorer   *)
(* (_calculate_quality_score), the assessment loop (assess_data_quality)   *)
(* and the tool facade (async with FHIRClient(...) as client: ...).        *)
(*                                                                         *)
(* Python values are encoded as records with a kind tag "k":               *)
(*   "absent"  the key is missing from the mapping                         *)
(*   "null"    JSON null (Python None)                                     *)
(*   "num"     a JSON number          "str"  a JSON string                 *)
(*   "list"    a JSON array           "map"  a JSON object                 *)
(* Strings are sequences of tokens where the URL algorithms look inside    *)
(* them, and TLA+ strings elsewhere.                                       *)
(***************************************************************************)
EXTENDS Integers, Sequences, FiniteSets

VARIABLES
    mode,         \* which part of the program the behaviour exercises
    pc,           \* position inside the operation being run
    response,     \* RawResponse handed to _validate_fhir_response
    validation,   \* outcome of _validate_fhir_response (value or raised exception)
    score,        \* value returned by _calculate_quality_score
    prev_score,   \* score of the same ValidationResult before its last issue was appended
    exchange,     \* outcome of one HTTP exchange inside _request
    returned,     \* value returned by _request
    raw_base,     \* base URL handed to FHIRClient.__init__
    base_url,     \* self.base_url
    op,           \* client operation that issues the request
    arg,          \* caller-supplied patient_id / resource_type
    endpoint,     \* relative path handed to _request
    url,          \* URL handed to self._client.request
    test_types,   \* categories assess_data_quality iterates
    idx,          \* index of the next category
    rows,         \* assessment["resource_assessments"], in insertion order
    timestamp,    \* assessment["timestamp"]
    now,          \* the wall clock
    log,          \* per scanned category: the exchange and the clock at its start and end
    calls,        \* facade invocations: position, operation, handle
    handles       \* connection handles created so far

pureVars   == << response, validation, score, prev_score >>
netVars    == << exchange, returned >>
urlVars    == << raw_base, base_url, op, arg, endpoint, url >>
scanVars   == << test_types, idx, rows, timestamp, now, log >>
facadeVars == << calls, handles >>

vars == << mode, pc, pureVars, netVars, urlVars, scanVars, facadeVars >>

----------------------------------------------------------------------------
(* Bounds of the model *)

MaxIssues == 2      \* longest 'issue' list of an upstream OperationOutcome
MaxEntries == 2     \* longest 'entry' list of a Bundle
MaxLinks == 2       \* longest 'link' list of a Bundle
MaxTotal == 2       \* largest declared Bundle total
MaxScoreIssues == 3 \* longest issue list of a ValidationResult handed directly to the scorer
MaxArgLen == 3      \* longest caller-supplied patient_id / resource_type, in tokens
MaxSlashes == 2     \* most trailing slashes on a base URL
MaxDelay == 1       \* longest one request takes, in clock ticks
NumCalls == 2       \* facade invocations in flight

----------------------------------------------------------------------------
(* JSON values *)

ABSENT == "<absent>"

SeqsUpTo(S, n) == UNION { [1..m -> S] : m \in 0..n }

Max(a, b) == IF a >= b THEN a ELSE b

\* the 'details' value of one issue entry
DetailsValues ==
    { [k |-> "absent", text |-> ABSENT],
      [k |-> "str",    text |-> ABSENT],
      [k |-> "map",    text |-> ABSENT],
      [k |-> "map",    text |-> "x"] }

\* one element of the 'issue' list: a mapping, or a bare string
IssueItems ==
    { [k |-> "str", severity |-> ABSENT, code |-> ABSENT,
       details |-> [k |-> "absent", text |-> ABSENT]] }
    \cup
    [ k : {"map"}, severity : {ABSENT, "error", "warning"},
      code : {ABSENT, "not-found"}, details : DetailsValues ]

\* the 'resource' value of one Bundle entry; reference is resource.subject.reference
\* as a token sequence, << >> when there is none
ResourceValues ==
    { [k |-> "absent", resourceType |-> ABSENT, reference |-> << >>],
      [k |-> "str",    resourceType |-> ABSENT, reference |-> << >>],
      [k |-> "map",    resourceType |-> ABSENT, reference |-> << >>],
      [k |-> "map",    resourceType |-> "Patient", reference |-> << >>],
      [k |-> "map",    resourceType |-> "Condition", reference |-> << >>] }

NoResource == [k |-> "absent", resourceType |-> ABSENT, reference |-> << >>]

\* one element of the 'entry' list: a mapping, or a bare number
EntryItems ==
    { [k |-> "num", resource |-> NoResource] }
    \cup [ k : {"map"}, resource : ResourceValues ]

\* one element of the 'link' list: a mapping, or a bare string
LinkItems ==
    { [k |-> "str", relation |-> ABSENT] }
    \cup [ k : {"map"}, relation : {ABSENT, "next", "self"} ]

AbsentList == [k |-> "absent", v |-> << >>]
NullList   == [k |-> "null",   v |-> << >>]
ListOf(s)  == [k |-> "list",   v |-> s]

AbsentNum == [k |-> "absent", n |-> 0]
NullNum   == [k |-> "null",   n |-> 0]
Num(n)    == [k |-> "num",    n |-> n]

IssueFields == {AbsentList, NullList} \cup { ListOf(s) : s \in SeqsUpTo(IssueItems, MaxIssues) }
EntryFields == {AbsentList, NullList} \cup { ListOf(s) : s \in SeqsUpTo(EntryItems, MaxEntries) }
LinkFields  == {AbsentList, NullList} \cup { ListOf(s) : s \in SeqsUpTo(LinkItems, MaxLinks) }
TotalFields == {AbsentNum, NullNum} \cup { Num(n) : n \in 0..MaxTotal }

\* RawResponse mappings the classifier is applied to
OutcomeResponses ==
    [ resourceType : {"OperationOutcome"}, issue : IssueFields,
      entry : {AbsentList}, total : {AbsentNum}, link : {AbsentList} ]

BundleResponses ==
    [ resourceType : {"Bundle"}, issue : {AbsentList},
      entry : EntryFields, total : TotalFields, link : LinkFields ]

OtherResponses ==
    [ resourceType : {"Patient", "CapabilityStatement", ABSENT},
      issue : {AbsentList, ListOf(<< >>)},
      entry : {AbsentList, NullList}, total : {AbsentNum, Num(0)}, link : {AbsentList} ]

RawResponses == OutcomeResponses \cup BundleResponses \cup OtherResponses

NoResponse == [ resourceType |-> ABSENT, issue |-> AbsentList, entry |-> AbsentList,
                total |-> AbsentNum, link |-> AbsentList ]

----------------------------------------------------------------------------
(* Response Classifier: FHIRClient._validate_fhir_response                  *)

NONE == "<None>"

\* dict.get(key, default) on a string-valued key
Get(value, default) == IF value = ABSENT THEN default ELSE value

NoFacts == [ present |-> FALSE, total_resources |-> Num(0), returned_resources |-> 0,
             has_next_page |-> FALSE, resource_types |-> {} ]

NoValidation == [ exc |-> "", is_valid |-> FALSE, issues |-> << >>,
                  data_quality |-> NoFacts, resource_type |-> ABSENT ]

\* raise: the call does not return; exc is str(e)
Raise(msg) == [ NoValidation EXCEPT !.exc = msg ]

StrHasNoGet  == "'str' object has no attribute 'get'"
NoneNotIter  == "'NoneType' object is not iterable"
NoneHasNoLen == "object of type 'NoneType' has no len()"
IntNotIter   == "argument of type 'int' is not iterable"

\* for issue in response.get("issue", []): validation["issues"].append({...})
RECURSIVE IssueLoop(_, _)
IssueLoop(items, acc) ==
    IF items = << >> THEN [ exc |-> "", issues |-> acc ]
    ELSE LET issue == Head(items) IN
         IF issue.k # "map" THEN [ exc |-> StrHasNoGet, issues |-> acc ]
         ELSE IF issue.details.k \notin {"absent", "map"}
              THEN [ exc |-> StrHasNoGet, issues |-> acc ]
         ELSE IssueLoop(Tail(items),
                  Append(acc, [ severity |-> Get(issue.severity, "unknown"),
                                code     |-> Get(issue.code, "unknown"),
                                details  |-> Get(issue.details.text, "No details") ]))

\* any(link.get("relation") == "next" for link in links): stops at the first hit
RECURSIVE AnyNext(_)
AnyNext(links) ==
    IF links = << >> THEN [ exc |-> "", val |-> FALSE ]
    ELSE IF Head(links).k # "map" THEN [ exc |-> StrHasNoGet, val |-> FALSE ]
    ELSE IF Head(links).relation = "next" THEN [ exc |-> "", val |-> TRUE ]
    ELSE AnyNext(Tail(links))

\* { entry.get("resource", {}).get("resourceType") for entry in entries if "resource" in entry }
RECURSIVE ResourceTypes(_, _)
ResourceTypes(entries, acc) ==
    IF entries = << >> THEN [ exc |-> "", val |-> acc ]
    ELSE LET entry == Head(entries) IN
         IF entry.k # "map" THEN [ exc |-> IntNotIter, val |-> acc ]
         ELSE IF entry.resource.k = "absent" THEN ResourceTypes(Tail(entries), acc)
         ELSE IF entry.resource.k # "map" THEN [ exc |-> StrHasNoGet, val |-> acc ]
         ELSE ResourceTypes(Tail(entries),
                  acc \cup { Get(entry.resource.resourceType, NONE) })

\* BundleFacts with the declared total replaced by the number of entries returned
BundleFactsCountsEntries(resp) ==
    [ exc |-> IF resp.entry.k = "null" THEN NoneHasNoLen
              ELSE IF resp.link.k = "null" THEN NoneNotIter
              ELSE IF AnyNext(resp.link.v).exc # "" THEN AnyNext(resp.link.v).exc
              ELSE ResourceTypes(resp.entry.v, {}).exc,
      facts |-> [ present |-> TRUE, total_resources |-> Num(Len(resp.entry.v)),
                  returned_resources |-> Len(resp.entry.v),
                  has_next_page |-> AnyNext(resp.link.v).val,
                  resource_types |-> ResourceTypes(resp.entry.v, {}).val ] ]

\* the Bundle branch: the dict literal is evaluated key by key, in order
BundleFacts(resp) ==
    LET entries == resp.entry
        total   == IF resp.total.k = "absent" THEN Num(0) ELSE resp.total
        links   == AnyNext(resp.link.v)
        types   == ResourceTypes(entries.v, {})
    IN  IF entries.k = "null" THEN [ exc |-> NoneHasNoLen, facts |-> NoFacts ]
        ELSE IF resp.link.k = "null" THEN [ exc |-> NoneNotIter, facts |-> NoFacts ]
        ELSE IF links.exc # "" THEN [ exc |-> links.exc, facts |-> NoFacts ]
        ELSE IF types.exc # "" THEN [ exc |-> types.exc, facts |-> NoFacts ]
        ELSE [ exc |-> "",
               facts |-> [ present |-> TRUE, total_resources |-> total,
                           returned_resources |-> Len(entries.v),
                           has_next_page |-> links.val,
                           resource_types |-> types.val ] ]

_validate_fhir_response(resp) ==
    LET base == [ exc |-> "", is_valid |-> TRUE, issues |-> << >>,
                  data_quality |-> NoFacts,
                  resource_type |-> Get(resp.resourceType, "Unknown") ]
    IN  IF resp.resourceType = "OperationOutcome"
        THEN IF resp.issue.k = "null" THEN Raise(NoneNotIter)
             ELSE LET loop == IssueLoop(resp.issue.v, << >>) IN
                  IF loop.exc # "" THEN Raise(loop.exc)
                  ELSE [ base EXCEPT !.is_valid = FALSE, !.issues = loop.issues ]
        ELSE IF resp.resourceType = "Bundle"
        THEN LET b == BundleFacts(resp) IN
             IF b.exc # "" THEN Raise(b.exc)
             ELSE [ base EXCEPT !.data_quality = b.facts ]
        ELSE base

----------------------------------------------------------------------------
(* Quality Scorer: FHIRClient._calculate_quality_score                      *)

\* for issue in validation["issues"]: score -= 30 / 10
RECURSIVE Deductions(_)
Deductions(issues) ==
    IF issues = << >> THEN 0
    ELSE (IF Head(issues).severity = "error" THEN 30
          ELSE IF Head(issues).severity = "warning" THEN 10
          ELSE 0) + Deductions(Tail(issues))

\* validation.get("data_quality", {}).get("total_resources", 0)
TotalResources(v) ==
    IF v.data_quality.present THEN v.data_quality.total_resources ELSE Num(0)

IsZero(x) == x.k = "num" /\ x.n = 0

\* _calculate_quality_score without the final max(0.0, score)
ScoreWithoutFloor(v) ==
    IF ~v.is_valid THEN 0
    ELSE 100 - Deductions(v.issues) - (IF IsZero(TotalResources(v)) THEN 50 ELSE 0)

_calculate_quality_score(v) ==
    IF ~v.is_valid THEN 0
    ELSE LET afterIssues == 100 - Deductions(v.issues)
             afterEmpty  == IF IsZero(TotalResources(v)) THEN afterIssues - 50
                            ELSE afterIssues
         IN  Max(0, afterEmpty)

NoScore == -1

----------------------------------------------------------------------------
(* Transport Adapter: FHIRClient._request and _operation_outcome            *)

\* {"resourceType": "OperationOutcome", "issue": [{severity, code, details: {text}}]}
_operation_outcome(code, text) ==
    [ resourceType |-> "OperationOutcome",
      issue |-> ListOf(<< [ k |-> "map", severity |-> "error", code |-> code,
                            details |-> [ k |-> "map", text |-> text ] ] >>),
      entry |-> AbsentList, total |-> AbsentNum, link |-> AbsentList ]

\* exception classes one exchange can raise, each with its direct base class
Parent(cls) ==
    CASE cls = "ConnectTimeout"     -> "TimeoutException"
      [] cls = "ReadTimeout"        -> "TimeoutException"
      [] cls = "WriteTimeout"       -> "TimeoutException"
      [] cls = "PoolTimeout"        -> "TimeoutException"
      [] cls = "TimeoutException"   -> "TransportError"
      [] cls = "ConnectError"       -> "NetworkError"
      [] cls = "ReadError"          -> "NetworkError"
      [] cls = "NetworkError"       -> "TransportError"
      [] cls = "RemoteProtocolError" -> "TransportError"
      [] cls = "TransportError"     -> "RequestError"
      [] cls = "TooManyRedirects"   -> "RequestError"
      [] cls = "RequestError"       -> "HTTPError"
      [] cls = "HTTPStatusError"    -> "HTTPError"
      [] cls = "HTTPError"          -> "Exception"
      [] cls = "InvalidURL"         -> "Exception"
      [] cls = "JSONDecodeError"    -> "ValueError"
      [] cls = "UnicodeDecodeError" -> "ValueError"
      [] cls = "ValueError"         -> "Exception"
      [] cls = "RuntimeError"       -> "Exception"
      [] cls = "TypeError"          -> "Exception"
      [] cls = "AttributeError"     -> "Exception"
      [] OTHER                      -> "BaseException"

RECURSIVE IsInstance(_, _)
IsInstance(cls, target) ==
    \/ cls = target
    \/ cls # "BaseException" /\ IsInstance(Parent(cls), target)

\* exceptions self._client.request can raise
RequestRaises ==
    { "ConnectTimeout", "ReadTimeout", "WriteTimeout", "PoolTimeout",
      "ConnectError", "ReadError", "RemoteProtocolError", "TooManyRedirects",
      "InvalidURL", "RuntimeError" }

TimeoutRaises == { "ConnectTimeout", "ReadTimeout", "WriteTimeout", "PoolTimeout" }

\* status codes of the modelled exchanges
StatusCodes == { 200, 201, 400, 401, 403, 404, 409, 500, 503 }

IsSuccess(status) == status \in 200..299

\* the body of a response, as r.json() sees it:
\*   "json"      decodes and parses; r.json() returns the payload
\*   "not-json"  decodes, does not parse; r.json() raises json.JSONDecodeError
\*   "not-utf8"  bytes that do not decode; r.json() raises UnicodeDecodeError
BodyKinds == { "json", "not-json", "not-utf8" }

JsonRaises(body) ==
    IF body = "not-json" THEN "JSONDecodeError"
    ELSE IF body = "not-utf8" THEN "UnicodeDecodeError"
    ELSE ""

EmptyBundle == [ resourceType |-> "Bundle", issue |-> AbsentList,
                 entry |-> ListOf(<< >>), total |-> Num(0), link |-> ListOf(<< >>) ]

PatientEntry == [ k |-> "map", resource |-> [ k |-> "map", resourceType |-> "Patient",
                                             reference |-> << >> ] ]

FullBundle == [ resourceType |-> "Bundle", issue |-> AbsentList,
                entry |-> ListOf(<< PatientEntry >>), total |-> Num(2),
                link |-> ListOf(<< [ k |-> "map", relation |-> "next" ] >>) ]

BrokenBundle == [ FullBundle EXCEPT !.entry = NullList ]

UpstreamOutcome ==
    [ resourceType |-> "OperationOutcome",
      issue |-> ListOf(<< [ k |-> "map", severity |-> "warning", code |-> "not-found",
                            details |-> [ k |-> "map", text |-> "x" ] ] >>),
      entry |-> AbsentList, total |-> AbsentNum, link |-> AbsentList ]

SinglePatient == [ NoResponse EXCEPT !.resourceType = "Patient" ]

\* decoded JSON bodies an upstream server answers with
Payloads == { EmptyBundle, FullBundle, BrokenBundle, UpstreamOutcome, SinglePatient }

NoExchange == [ exc |-> "", status |-> 0, body |-> "json", payload |-> NoResponse ]

\* outcomes of await self._client.request(...): it raises, or yields a response
Exchanges ==
    [ exc : RequestRaises, status : {0}, body : {"json"}, payload : {NoResponse} ]
    \cup [ exc : {""}, status : StatusCodes, body : {"json"}, payload : Payloads ]
    \cup [ exc : {""}, status : StatusCodes, body : BodyKinds \ {"json"},
           payload : {NoResponse} ]

Returns(value) == [ raised |-> "", value |-> value ]

\* the except clauses of the outer try, in source order
OuterExcept(cls) ==
    IF IsInstance(cls, "TimeoutException")
    THEN Returns(_operation_outcome("timeout", "Request timed out"))
    ELSE IF IsInstance(cls, "HTTPError")
    THEN Returns(_operation_outcome("exception", "HTTP error: {e}"))
    ELSE IF IsInstance(cls, "Exception")
    THEN Returns(_operation_outcome("exception", "Unexpected error: {e}"))
    ELSE [ raised |-> cls, value |-> NoResponse ]

\* try: return r.json()  except json.JSONDecodeError: return invalid
ParseBody(x) ==
    IF JsonRaises(x.body) = "" THEN Returns(x.payload)
    ELSE IF IsInstance(JsonRaises(x.body), "JSONDecodeError")
    THEN Returns(_operation_outcome("invalid", "Invalid JSON: {e}"))
    ELSE OuterExcept(JsonRaises(x.body))

\* the body of _request once the URL is built, for one exchange outcome x
_request(x) ==
    IF x.exc # "" THEN OuterExcept(x.exc)
    ELSE IF x.status = 404
    THEN Returns(_operation_outcome("not-found", "Resource not found"))
    ELSE IF x.status = 401
    THEN Returns(_operation_outcome("security", "Authentication required"))
    ELSE IF x.status = 403
    THEN Returns(_operation_outcome("forbidden", "Access forbidden"))
    ELSE IF ~IsSuccess(x.status) THEN OuterExcept("HTTPStatusError")
    ELSE ParseBody(x)

----------------------------------------------------------------------------
(* URL resolution: FHIRClient.__init__ (rstrip) and the first line of       *)
(* _request (lstrip, urljoin).  A string is a sequence of tokens: the       *)
(* delimiters "/" and ":", the dots "." and "..", and alphabetic words.     *)

Words == { "http", "host", "fhir", "x", "Patient", "Observation", "Condition",
           "MedicationRequest", "DiagnosticReport", "CarePlan", "metadata" }

\* characters a URL scheme may hold (scheme_chars), as tokens
SchemeTokens == Words \cup { ".", ".." }

\* the path segments "." and ".."
IsDot(seg) == seg = << "." >>
IsDotDot(seg) == seg \in { << ".." >>, << ".", "." >> }

\* schemes of uses_relative and uses_netloc that the tokens can spell
RelativeSchemes == { << >>, << "http" >> }

\* str.rstrip("/")
RECURSIVE rstrip(_)
rstrip(s) ==
    IF s # << >> /\ s[Len(s)] = "/" THEN rstrip(SubSeq(s, 1, Len(s) - 1)) ELSE s

\* str.lstrip("/")
RECURSIVE lstrip(_)
lstrip(s) == IF s # << >> /\ Head(s) = "/" THEN lstrip(Tail(s)) ELSE s

\* str.find(t), 1-based; 0 when t does not occur
Find(s, t) ==
    IF \E i \in 1..Len(s) : s[i] = t
    THEN CHOOSE i \in 1..Len(s) : s[i] = t /\ \A j \in 1..(i - 1) : s[j] # t
    ELSE 0

StartsWith(s, p) == Len(s) >= Len(p) /\ SubSeq(s, 1, Len(p)) = p

\* urlsplit(url, scheme): scheme, netloc and path of a URL
urlsplit(u, default) ==
    LET i         == Find(u, ":")
        hasScheme == /\ i > 1
                     /\ u[1] \in Words
                     /\ \A j \in 1..(i - 1) : u[j] \in SchemeTokens
        scheme    == IF hasScheme THEN SubSeq(u, 1, i - 1) ELSE default
        rest      == IF hasScheme THEN SubSeq(u, i + 1, Len(u)) ELSE u
        after     == SubSeq(rest, 3, Len(rest))
        cut       == Find(after, "/")
    IN  IF StartsWith(rest, << "/", "/" >>)
        THEN [ scheme |-> scheme,
               netloc |-> IF cut = 0 THEN after ELSE SubSeq(after, 1, cut - 1),
               path   |-> IF cut = 0 THEN << >> ELSE SubSeq(after, cut, Len(after)) ]
        ELSE [ scheme |-> scheme, netloc |-> << >>, path |-> rest ]

\* urlunsplit((scheme, netloc, path, '', ''))
urlunsplit(scheme, netloc, path) ==
    LET withNetloc ==
            IF \/ netloc # << >>
               \/ (scheme # << >> /\ scheme \in RelativeSchemes
                   /\ ~StartsWith(path, << "/", "/" >>))
            THEN << "/", "/" >> \o netloc \o
                 (IF path # << >> /\ Head(path) # "/" THEN << "/" >> \o path ELSE path)
            ELSE path
    IN  IF scheme # << >> THEN scheme \o << ":" >> \o withNetloc ELSE withNetloc

\* str.split("/"): the segments between the slashes
RECURSIVE SplitFrom(_, _, _)
SplitFrom(s, cur, acc) ==
    IF s = << >> THEN Append(acc, cur)
    ELSE IF Head(s) = "/" THEN SplitFrom(Tail(s), << >>, Append(acc, cur))
    ELSE SplitFrom(Tail(s), Append(cur, Head(s)), acc)

Split(s) == SplitFrom(s, << >>, << >>)

\* "/".join(segments)
RECURSIVE Join(_)
Join(segs) ==
    IF segs = << >> THEN << >>
    ELSE IF Len(segs) = 1 THEN segs[1]
    ELSE segs[1] \o << "/" >> \o Join(Tail(segs))

\* filter(None, segments)
RECURSIVE NonEmpty(_)
NonEmpty(segs) ==
    IF segs = << >> THEN << >>
    ELSE IF Head(segs) = << >> THEN NonEmpty(Tail(segs))
    ELSE << Head(segs) >> \o NonEmpty(Tail(segs))

\* segments[1:-1] = filter(None, segments[1:-1])
FilterInner(segs) ==
    IF Len(segs) <= 2 THEN segs
    ELSE << segs[1] >> \o NonEmpty(SubSeq(segs, 2, Len(segs) - 1)) \o << segs[Len(segs)] >>

\* the loop over segments that resolves "." and ".."
RECURSIVE Resolve(_, _)
Resolve(segs, resolved) ==
    IF segs = << >> THEN resolved
    ELSE IF IsDotDot(Head(segs))
    THEN Resolve(Tail(segs),
                 IF resolved = << >> THEN resolved
                 ELSE SubSeq(resolved, 1, Len(resolved) - 1))
    ELSE IF IsDot(Head(segs)) THEN Resolve(Tail(segs), resolved)
    ELSE Resolve(Tail(segs), Append(resolved, Head(segs)))

\* urllib.parse.urljoin(base, url)
urljoin(base, u) ==
    LET b         == urlsplit(base, << >>)
        r         == urlsplit(u, b.scheme)
        baseParts == LET p == Split(b.path) IN
                     IF p[Len(p)] # << >> THEN SubSeq(p, 1, Len(p) - 1) ELSE p
        segments  == IF r.path # << >> /\ Head(r.path) = "/" THEN Split(r.path)
                     ELSE FilterInner(baseParts \o Split(r.path))
        last      == segments[Len(segments)]
        resolved  == LET rp == Resolve(segments, << >>) IN
                     IF IsDot(last) \/ IsDotDot(last) THEN Append(rp, << >>)
                     ELSE rp
        joined    == IF Join(resolved) = << >> THEN << "/" >> ELSE Join(resolved)
    IN  IF base = << >> THEN u
        ELSE IF u = << >> THEN base
        ELSE IF r.scheme # b.scheme \/ r.scheme \notin RelativeSchemes THEN u
        ELSE IF r.netloc # << >> THEN urlunsplit(r.scheme, r.netloc, r.path)
        ELSE IF r.path = << >> THEN urlunsplit(r.scheme, b.netloc, b.path)
        ELSE urlunsplit(r.scheme, b.netloc, joined)

\* self.base_url = base_url.rstrip("/")
StoredBaseUrl(base) == rstrip(base)

\* url = urljoin(self.base_url + "/", endpoint.lstrip("/"))
RequestUrl(base, ep) == urljoin(base \o << "/" >>, lstrip(ep))
----------------------------------------------------------------------------
(* Assessment Orchestrator: the loop body of FHIRClient.assess_data_quality *)

\* one value of assessment["resource_assessments"]; keys is the set of keys the
\* dict literal holds, a field outside keys is not part of the row
NormalRow(v) ==
    [ keys |-> { "accessible", "total_available", "issues", "data_quality_score" },
      accessible |-> v.is_valid,
      total_available |-> TotalResources(v),
      issues |-> v.issues,
      error |-> "",
      data_quality_score |-> _calculate_quality_score(v) ]

\* the row of the except clause
FailureRow(msg) ==
    [ keys |-> { "accessible", "error", "data_quality_score" },
      accessible |-> FALSE,
      total_available |-> Num(0),
      issues |-> << >>,
      error |-> msg,
      data_quality_score |-> 0 ]

\* the except clause narrowed to httpx.HTTPError
ExceptHTTPErrorOnly(cls, msg) ==
    IF IsInstance(cls, "HTTPError")
    THEN [ propagated |-> "", row |-> FailureRow(msg) ]
    ELSE [ propagated |-> cls, row |-> FailureRow(msg) ]

\* except Exception as e: catches every Exception, lets anything else propagate
ExceptException(cls, msg) ==
    IF IsInstance(cls, "Exception")
    THEN [ propagated |-> "", row |-> FailureRow(msg) ]
    ELSE [ propagated |-> cls, row |-> FailureRow(msg) ]

\* try: request, classify, score, record  except Exception: record the failure
AssessCategory(x) ==
    LET r == _request(x)
        v == _validate_fhir_response(r.value)
    IN  IF r.raised # "" THEN ExceptException(r.raised, r.raised)
        ELSE IF v.exc # ""
        THEN ExceptException(IF v.exc = StrHasNoGet THEN "AttributeError" ELSE "TypeError",
                             v.exc)
        ELSE [ propagated |-> "", row |-> NormalRow(v) ]

\* d[key] = value on an insertion-ordered dict kept as a sequence of pairs
DictPut(d, key, value) ==
    IF \E i \in 1..Len(d) : d[i].key = key
    THEN [ i \in 1..Len(d) |-> IF d[i].key = key THEN [ key |-> key, value |-> value ]
                               ELSE d[i] ]
    ELSE Append(d, [ key |-> key, value |-> value ])

\* datetime.now(): local time, one tick ahead of UTC
localnow(clock) == clock + 1

\* datetime.utcnow()
utcnow(clock) == clock
----------------------------------------------------------------------------
(* Operation Facade: the tools, each  async with FHIRClient(...) as client  *)

SimpleTools ==
    { "get_patient", "search_patients", "search_observations", "search_conditions",
      "search_medication_requests", "search_diagnostic_reports", "search_care_plans" }

Tools == SimpleTools \cup { "find_patients_with_conditions", "assess_data_quality" }

\* a Condition whose subject.reference is ref
ConditionEntry(ref) ==
    [ k |-> "map",
      resource |-> [ k |-> "map", resourceType |-> "Condition", reference |-> ref ] ]

ConditionBundle ==
    [ resourceType |-> "Bundle", issue |-> AbsentList,
      entry |-> ListOf(<< ConditionEntry(<< "Patient", "/", "2" >>),
                          ConditionEntry(<< "Group", "/", "9" >>),
                          ConditionEntry(<< "Patient", "/", "1" >>),
                          ConditionEntry(<< "Patient", "/", "2" >>) >>),
      total |-> Num(2), link |-> AbsentList ]

NumberEntryBundle ==
    [ EmptyBundle EXCEPT !.entry = ListOf(<< [ k |-> "num", resource |-> NoResource ] >>) ]

IntHasNoGet == "'int' object has no attribute 'get'"

\* the order sorted() puts the identifiers of the modelled payloads in
Rank(id) ==
    CASE id = << "1" >> -> 1
      [] id = << "2" >> -> 2
      [] id = << "9" >> -> 9
      [] OTHER -> 0

\* sorted(patient_ids)
Sorted(S) ==
    CHOOSE s \in [ 1..Cardinality(S) -> S ] :
        \A i, j \in 1..Cardinality(S) : i < j => Rank(s[i]) < Rank(s[j])

\* the set comprehension of find_patients_with_conditions over bundle["entry"]
RECURSIVE CollectIds(_, _)
CollectIds(entries, acc) ==
    IF entries = << >> THEN [ exc |-> "", ids |-> acc ]
    ELSE LET entry == Head(entries)
             ref   == entry.resource.reference
             parts == Split(ref)
         IN  IF entry.k # "map" THEN [ exc |-> IntHasNoGet, ids |-> acc ]
             ELSE IF entry.resource.k \notin { "absent", "map" }
             THEN [ exc |-> StrHasNoGet, ids |-> acc ]
             ELSE IF ref # << >> /\ StartsWith(ref, << "Patient", "/" >>)
             THEN CollectIds(Tail(entries), acc \cup { parts[Len(parts)] })
             ELSE CollectIds(Tail(entries), acc)

\* the body of find_patients_with_conditions after the search returned bundle
PatientIds(bundle) ==
    IF bundle.entry.k = "null" THEN [ exc |-> NoneNotIter, ids |-> << >> ]
    ELSE LET c == CollectIds(bundle.entry.v, {}) IN
         IF c.exc # "" THEN [ exc |-> c.exc, ids |-> << >> ]
         ELSE [ exc |-> "", ids |-> Sorted(c.ids) ]

\* FHIRClient.__init__: self._client = httpx.AsyncClient(timeout=timeout)
NewHandle(owner) == [ owner |-> owner, state |-> "open", closes |-> 0 ]

\* __aexit__ that releases the handle only when the body returned
AexitSkipsOnError(h, exc) ==
    IF exc = "" THEN [ h EXCEPT !.state = "closed", !.closes = @ + 1 ] ELSE h

\* FHIRClient.__aexit__(*_) -> close() -> self._client.aclose(); exc is the
\* exception the body raised, "" when it returned
__aexit__(h, exc) == [ h EXCEPT !.state = "closed", !.closes = @ + 1 ]
----------------------------------------------------------------------------
(* One exchange handed to _request, for every outcome of the bounded set *)

NoReturn == [ raised |-> "", value |-> NoResponse ]



UrlIdle ==
    /\ raw_base = << >> /\ base_url = << >> /\ op = "" /\ arg = << >>
    /\ endpoint = << >> /\ url = << >>

PureIdle ==
    /\ response = NoResponse /\ validation = NoValidation
    /\ score = NoScore /\ prev_score = NoScore

NetIdle == exchange = NoExchange /\ returned = NoReturn

ScanIdle ==
    /\ test_types = << >> /\ idx = 0 /\ rows = << >> /\ timestamp = 0
    /\ now = 0 /\ log = << >>

FacadeIdle == calls = << >> /\ handles = << >>

InitRequest ==
    /\ mode = "request" /\ pc = "awaiting"
    /\ exchange \in Exchanges
    /\ returned = NoReturn
    /\ PureIdle /\ UrlIdle /\ ScanIdle /\ FacadeIdle

Request ==
    /\ mode = "request" /\ pc = "awaiting"
    /\ returned' = _request(exchange)
    /\ pc' = IF returned'.raised = "" THEN "returned" ELSE "raised"
    /\ UNCHANGED << mode, exchange, pureVars, urlVars, scanVars, facadeVars >>

NextRequest == Request

SpecRequest == InitRequest /\ [][NextRequest]_vars
----------------------------------------------------------------------------
(* Classifier and scorer applied to every RawResponse of the bounded set    *)

InitClassify ==
    /\ mode = "classify" /\ pc = "input"
    /\ response \in RawResponses
    /\ validation = NoValidation /\ score = NoScore /\ prev_score = NoScore
    /\ NetIdle /\ UrlIdle /\ ScanIdle /\ FacadeIdle

Validate ==
    /\ mode = "classify" /\ pc = "input"
    /\ validation' = _validate_fhir_response(response)
    /\ pc' = IF validation'.exc = "" THEN "validated" ELSE "raised"
    /\ UNCHANGED << mode, response, score, prev_score, netVars, urlVars, scanVars,
                    facadeVars >>

Score ==
    /\ mode \in {"classify", "score"} /\ pc = "validated"
    /\ score' = _calculate_quality_score(validation)
    /\ pc' = "scored"
    /\ UNCHANGED << mode, response, validation, prev_score, netVars, urlVars,
                    scanVars, facadeVars >>

NextClassify == Validate \/ Score

SpecClassify == InitClassify /\ [][NextClassify]_vars

----------------------------------------------------------------------------
(* Scorer applied directly to ValidationResults, and to the same result     *)
(* with one more issue appended                                             *)

Severities == {"error", "warning", "information"}

ScoredIssues == [ severity : Severities, code : {"x"}, details : {"x"} ]

FactsValues ==
    {NoFacts} \cup
    { [ NoFacts EXCEPT !.present = TRUE, !.total_resources = t ] : t \in TotalFields \ {AbsentNum} }

ValidationResults ==
    [ exc : {""}, is_valid : BOOLEAN, issues : SeqsUpTo(ScoredIssues, MaxScoreIssues),
      data_quality : FactsValues, resource_type : {"Bundle"} ]

InitScore ==
    /\ mode = "score" /\ pc = "validated"
    /\ response = NoResponse
    /\ validation \in ValidationResults
    /\ score = NoScore /\ prev_score = NoScore
    /\ NetIdle /\ UrlIdle /\ ScanIdle /\ FacadeIdle

AppendIssue ==
    /\ mode = "score" /\ pc = "scored"
    /\ Len(validation.issues) <= MaxScoreIssues
    /\ \E i \in ScoredIssues :
          validation' = [ validation EXCEPT !.issues = Append(@, i) ]
    /\ prev_score' = score
    /\ score' = _calculate_quality_score(validation')
    /\ UNCHANGED << mode, pc, response, netVars, urlVars, scanVars, facadeVars >>

NextScore == Score \/ AppendIssue

SpecScore == InitScore /\ [][NextScore]_vars
----------------------------------------------------------------------------
(* The URL each client operation requests, for every base URL and every     *)
(* caller-supplied argument of the bounded sets                             *)

BaseStems ==
    { << "http", ":", "/", "/", "host", "/", "fhir" >>,
      << "http", ":", "/", "/", "host" >>,
      << "host", "/", "fhir" >> }

RECURSIVE Slashes(_)
Slashes(n) == IF n = 0 THEN << >> ELSE << "/" >> \o Slashes(n - 1)

BaseUrls == { stem \o Slashes(n) : stem \in BaseStems, n \in 0..MaxSlashes }

ArgTokens == { "/", ":", "..", "http", "x" }

Args == SeqsUpTo(ArgTokens, MaxArgLen)

\* the fixed relative path of each search operation of the client
SearchPath(o) ==
    CASE o = "search_patients"            -> << "Patient" >>
      [] o = "search_observations"        -> << "Observation" >>
      [] o = "search_conditions"          -> << "Condition" >>
      [] o = "search_medication_requests" -> << "MedicationRequest" >>
      [] o = "search_diagnostic_reports"  -> << "DiagnosticReport" >>
      [] o = "search_care_plans"          -> << "CarePlan" >>
      [] o = "get_capability_statement"   -> << "metadata" >>

SearchOps ==
    { "search_patients", "search_observations", "search_conditions",
      "search_medication_requests", "search_diagnostic_reports", "search_care_plans",
      "get_capability_statement" }

DefaultTypes ==
    << << "Patient" >>, << "Observation" >>, << "Condition" >>, << "MedicationRequest" >> >>

\* test_types = [resource_type] if resource_type else [the four defaults]
TestTypes(resource_type) ==
    IF resource_type # << >> THEN << resource_type >> ELSE DefaultTypes

InitUrl ==
    /\ mode = "url" /\ pc = "new"
    /\ raw_base \in BaseUrls
    /\ \/ op \in {"get_patient", "assess_data_quality"} /\ arg \in Args
       \/ op \in SearchOps /\ arg = << >>
    /\ base_url = << >> /\ endpoint = << >> /\ url = << >>
    /\ PureIdle /\ NetIdle /\ ScanIdle /\ FacadeIdle

\* FHIRClient.__init__
Construct ==
    /\ mode = "url" /\ pc = "new"
    /\ base_url' = StoredBaseUrl(raw_base)
    /\ pc' = "constructed"
    /\ UNCHANGED << mode, raw_base, op, arg, endpoint, url, pureVars, netVars,
                    scanVars, facadeVars >>

\* FHIRClient.get_patient: f"Patient/{patient_id}"
GetPatient ==
    /\ mode = "url" /\ pc = "constructed" /\ op = "get_patient"
    /\ endpoint' = << "Patient", "/" >> \o arg
    /\ pc' = "requesting"
    /\ UNCHANGED << mode, raw_base, base_url, op, arg, url, pureVars, netVars,
                    scanVars, facadeVars >>

\* FHIRClient.search_* and get_capability_statement
Search ==
    /\ mode = "url" /\ pc = "constructed" /\ op \in SearchOps
    /\ endpoint' = SearchPath(op)
    /\ pc' = "requesting"
    /\ UNCHANGED << mode, raw_base, base_url, op, arg, url, pureVars, netVars,
                    scanVars, facadeVars >>

\* FHIRClient.assess_data_quality: self._request("GET", rt, ...) for one rt
AssessRequest ==
    /\ mode = "url" /\ pc = "constructed" /\ op = "assess_data_quality"
    /\ \E i \in 1..Len(TestTypes(arg)) : endpoint' = TestTypes(arg)[i]
    /\ pc' = "requesting"
    /\ UNCHANGED << mode, raw_base, base_url, op, arg, url, pureVars, netVars,
                    scanVars, facadeVars >>

\* FHIRClient._request: the URL handed to self._client.request
SendRequest ==
    /\ mode = "url" /\ pc = "requesting"
    /\ url' = RequestUrl(base_url, endpoint)
    /\ pc' = "sent"
    /\ UNCHANGED << mode, raw_base, base_url, op, arg, endpoint, pureVars, netVars,
                    scanVars, facadeVars >>

NextUrl == Construct \/ GetPatient \/ Search \/ AssessRequest \/ SendRequest

SpecUrl == InitUrl /\ [][NextUrl]_vars
----------------------------------------------------------------------------
(* One run of FHIRClient.assess_data_quality: every category answers with   *)
(* one of the exchanges below, and each request takes 0..MaxDelay ticks     *)

Ok(payload) == [ exc |-> "", status |-> 200, body |-> "json", payload |-> payload ]

ScanExchanges ==
    { [ NoExchange EXCEPT !.status = 404 ],
      [ NoExchange EXCEPT !.exc = "ReadTimeout" ],
      Ok(EmptyBundle), Ok(FullBundle), Ok(BrokenBundle), Ok(UpstreamOutcome),
      Ok(SinglePatient) }

ResourceTypeArgs == { << >>, << "CarePlan" >>, << "Patient" >> }

Init ==
    /\ mode = "assess" /\ pc = "idle"
    /\ arg \in ResourceTypeArgs
    /\ raw_base = << >> /\ base_url = << >> /\ op = "assess_data_quality"
    /\ endpoint = << >> /\ url = << >>
    /\ test_types = << >> /\ idx = 0 /\ rows = << >> /\ timestamp = 0 /\ log = << >>
    /\ now \in 0..MaxDelay
    /\ PureIdle /\ NetIdle /\ FacadeIdle

\* the lines before the loop: the report skeleton and the category list
StartAssess ==
    /\ mode = "assess" /\ pc = "idle"
    /\ timestamp' = utcnow(now)
    /\ rows' = << >>
    /\ test_types' = TestTypes(arg)
    /\ idx' = 1
    /\ pc' = "scanning"
    /\ UNCHANGED << mode, now, log, pureVars, netVars, urlVars, facadeVars >>

\* one iteration of the loop; the iteration after the last one returns the report
ScanCategory ==
    /\ mode = "assess" /\ pc = "scanning"
    /\ \E x \in ScanExchanges, d \in 0..MaxDelay :
          LET rt  == test_types[idx]
              out == AssessCategory(x)
          IN  /\ now' = now + d
              /\ log' = Append(log, [ rt |-> rt, exchange |-> x,
                                      started |-> now, ended |-> now + d ])
              /\ IF out.propagated # ""
                 THEN /\ pc' = "aborted"
                      /\ UNCHANGED << rows, idx >>
                 ELSE /\ rows' = DictPut(rows, rt, out.row)
                      /\ idx' = idx + 1
                      /\ pc' = IF idx = Len(test_types) THEN "done" ELSE "scanning"
    /\ UNCHANGED << mode, test_types, timestamp, pureVars, netVars, urlVars,
                    facadeVars >>

Next == StartAssess \/ ScanCategory

Spec == Init /\ [][Next]_vars
----------------------------------------------------------------------------
(* NumCalls tool invocations interleaved at their suspension points         *)

FacadeExchanges ==
    { [ NoExchange EXCEPT !.status = 404 ],
      Ok(BrokenBundle), Ok(ConditionBundle), Ok(NumberEntryBundle) }

IdleCall == [ pc |-> "idle", op |-> "", handle |-> 0, left |-> 0, result |-> "",
              ids |-> << >> ]

InitFacade ==
    /\ mode = "facade" /\ pc = "running"
    /\ calls = [ c \in 1..NumCalls |-> IdleCall ]
    /\ handles = << >>
    /\ PureIdle /\ NetIdle /\ UrlIdle /\ ScanIdle

\* a tool is invoked: FHIRClient(...) is constructed and __aenter__ returns it
Enter(c) ==
    /\ mode = "facade" /\ calls[c].pc = "idle"
    /\ \E o \in Tools, rt \in ResourceTypeArgs :
          /\ o # "assess_data_quality" => rt = << >>
          /\ calls' = [ calls EXCEPT ![c] =
                [ pc |-> "body", op |-> o, handle |-> Len(handles) + 1,
                  left |-> IF o = "assess_data_quality" THEN Len(TestTypes(rt)) ELSE 1,
                  result |-> "", ids |-> << >> ] ]
    /\ handles' = Append(handles, NewHandle(c))
    /\ UNCHANGED << mode, pc, pureVars, netVars, urlVars, scanVars >>

\* one awaited self._request(...) of the body completes, and the body runs on to
\* its next request or to its end
BodyRequest(c) ==
    /\ mode = "facade" /\ calls[c].pc = "body"
    /\ \E x \in FacadeExchanges :
          LET r   == _request(x)
              ids == PatientIds(r.value)
              me  == calls[c]
          IN  calls' = [ calls EXCEPT ![c] =
                IF r.raised # ""
                THEN [ me EXCEPT !.pc = "exiting", !.left = 0, !.result = "exception" ]
                ELSE IF me.op \in SimpleTools
                THEN [ me EXCEPT !.pc = "exiting", !.left = 0,
                         !.result = IF r.value = x.payload /\ x.exc = ""
                                    THEN "payload" ELSE "error_object" ]
                ELSE IF me.op = "find_patients_with_conditions"
                THEN [ me EXCEPT !.pc = "exiting", !.left = 0,
                         !.result = IF ids.exc # "" THEN "exception" ELSE "ids",
                         !.ids = ids.ids ]
                ELSE IF AssessCategory(x).propagated # ""
                THEN [ me EXCEPT !.pc = "exiting", !.left = 0, !.result = "exception" ]
                ELSE IF me.left = 1
                THEN [ me EXCEPT !.pc = "exiting", !.left = 0, !.result = "report" ]
                ELSE [ me EXCEPT !.left = @ - 1 ] ]
    /\ UNCHANGED << mode, pc, handles, pureVars, netVars, urlVars, scanVars >>

\* the async with block is left: __aexit__ runs, then the tool returns or raises
Exit(c) ==
    /\ mode = "facade" /\ calls[c].pc = "exiting"
    /\ handles' = [ handles EXCEPT ![calls[c].handle] =
                       __aexit__(@, IF calls[c].result = "exception" THEN "raised" ELSE "") ]
    /\ calls' = [ calls EXCEPT ![c].pc =
                     IF calls[c].result = "exception" THEN "raised" ELSE "returned" ]
    /\ UNCHANGED << mode, pc, pureVars, netVars, urlVars, scanVars >>

NextFacade == \E c \in 1..NumCalls : Enter(c) \/ BodyRequest(c) \/ Exit(c)

SpecFacade == InitFacade /\ [][NextFacade]_vars
----------------------------------------------------------------------------
(* Properties *)

\* the classifier fails on the body the exchange x leads to
Failed(x) == _validate_fhir_response(_request(x).value).exc # ""

\* C1: assess_data_quality is never aborted by a failing category: the
\* categories are the four defaults when no resource_type is supplied and the
\* supplied one otherwise; every scanned category has exactly one row, in the
\* order requested; a category whose processing raised is recorded with
\* accessible = false, data_quality_score = 0 and the failure description in
\* 'error'; and the report is returned only when every category has its row.
C1_PerCategoryIsolation ==
    mode = "assess" =>
        /\ pc # "aborted"
        /\ pc # "idle" =>
              test_types = IF arg = << >>
                           THEN << << "Patient" >>, << "Observation" >>,
                                   << "Condition" >>, << "MedicationRequest" >> >>
                           ELSE << arg >>
        /\ Len(rows) = Len(log)
        /\ \A i \in 1..Len(rows) :
              /\ rows[i].key = test_types[i]
              /\ log[i].rt = test_types[i]
              /\ Failed(log[i].exchange) =>
                    /\ rows[i].value.accessible = FALSE
                    /\ rows[i].value.data_quality_score = 0
                    /\ "error" \in rows[i].value.keys
                    /\ rows[i].value.error =
                          _validate_fhir_response(_request(log[i].exchange).value).exc
        /\ pc = "done" => Len(rows) = Len(test_types)

\* C1 witness: a finished default scan whose first category failed unexpectedly
\* and whose last category was still scanned and found accessible
C1_Witness ==
    /\ mode = "assess" /\ pc = "done" /\ Len(rows) = 4
    /\ Failed(log[1].exchange)
    /\ "error" \in rows[1].value.keys
    /\ rows[4].value.accessible

\* the issue code of a synthesized OperationOutcome, "" for any other value
CodeOf(value) ==
    IF value.resourceType = "OperationOutcome" /\ value.issue.k = "list"
       /\ Len(value.issue.v) = 1 /\ value.issue.v[1].severity = "error"
    THEN value.issue.v[1].code ELSE ""

\* C2: _request returns for every exchange outcome, first match winning:
\* 404 -> not-found, 401 -> security, 403 -> forbidden, another failing status
\* -> exception, 2xx with a body that is not parseable JSON -> invalid, a
\* timed-out request -> timeout, another transport failure -> exception, 2xx
\* with parseable JSON -> the parsed body verbatim.
C2_OutcomeMapping ==
    (mode = "request" /\ pc # "awaiting") =>
        /\ pc = "returned"
        /\ IF exchange.exc \in TimeoutRaises THEN CodeOf(returned.value) = "timeout"
           ELSE IF exchange.exc # "" THEN CodeOf(returned.value) = "exception"
           ELSE IF exchange.status = 404 THEN CodeOf(returned.value) = "not-found"
           ELSE IF exchange.status = 401 THEN CodeOf(returned.value) = "security"
           ELSE IF exchange.status = 403 THEN CodeOf(returned.value) = "forbidden"
           ELSE IF exchange.status \notin 200..299
           THEN CodeOf(returned.value) = "exception"
           ELSE IF exchange.body # "json" THEN CodeOf(returned.value) = "invalid"
           ELSE returned.value = exchange.payload

\* C3: the URL requested is the base URL without its trailing slashes, one
\* "/", and the relative path without its leading slashes; so the URL lies
\* under the configured base URL.
C3_UrlUnderBase ==
    (mode = "url" /\ pc = "sent") =>
        /\ url = rstrip(raw_base) \o << "/" >> \o lstrip(endpoint)
        /\ StartsWith(url, rstrip(raw_base) \o << "/" >>)

\* C4: _validate_fhir_response returns a ValidationResult for every
\* RawResponse mapping and never raises.
C4_ClassifierTotal ==
    mode = "classify" => pc # "raised"

\* C5: for a valid result without issues the score is 50 when data-quality
\* facts are present and the declared total is 0, and 100 otherwise (also when
\* no facts are present).
C5_EmptyPenalty ==
    (mode = "classify" /\ pc = "scored" /\ validation.is_valid
        /\ validation.issues = << >>) =>
        score = IF validation.data_quality.present
                   /\ validation.data_quality.total_resources = Num(0)
                THEN 50 ELSE 100

\* C6: every tool invocation owns exactly one handle, opened when its
\* FHIRClient is constructed; the handle is open while the body runs, and is
\* released exactly once by the time the invocation has returned or raised;
\* no handle is released twice or shared between two invocations.
C6_ScopedHandle ==
    mode = "facade" =>
        /\ \A c \in 1..NumCalls :
              LET me == calls[c] IN
              /\ me.pc = "idle" => \A h \in 1..Len(handles) : handles[h].owner # c
              /\ me.pc # "idle" =>
                    /\ me.handle \in 1..Len(handles)
                    /\ { h \in 1..Len(handles) : handles[h].owner = c } = { me.handle }
              /\ me.pc \in { "body", "exiting" } =>
                    /\ handles[me.handle].state = "open"
                    /\ handles[me.handle].closes = 0
              /\ me.pc \in { "returned", "raised" } =>
                    /\ handles[me.handle].state = "closed"
                    /\ handles[me.handle].closes = 1
        /\ \A h \in 1..Len(handles) : handles[h].closes <= 1
        /\ \A c, d \in 1..NumCalls :
              (c # d /\ calls[c].pc # "idle" /\ calls[d].pc # "idle") =>
                  calls[c].handle # calls[d].handle

\* C6 witness: one invocation raised out of its body and its handle is
\* released, while another invocation is inside its body with its own handle
C6_Witness ==
    /\ mode = "facade"
    /\ \E c, d \in 1..NumCalls :
          /\ calls[c].pc = "raised" /\ calls[c].op = "find_patients_with_conditions"
          /\ handles[calls[c].handle].closes = 1
          /\ calls[d].pc = "body" /\ calls[d].op = "assess_data_quality"
          /\ handles[calls[d].handle].state = "open"

\* C7 as stated: the report's timestamp is read after the last category has
\* been requested and recorded, so it is never earlier than the completion of
\* any category's request.
C7_TimestampAfterLastCategory ==
    (mode = "assess" /\ pc = "done") =>
        \A i \in 1..Len(log) : timestamp >= log[i].ended

\* C7 amended: the report's timestamp is read before the first category is
\* requested, so it is never later than the start (or the completion) of any
\* category's request.
C7_TimestampBeforeFirstRequest ==
    mode = "assess" =>
        \A i \in 1..Len(log) :
            timestamp <= log[i].started /\ timestamp <= log[i].ended

\* C7 witness: a finished default scan whose last request completed after the
\* instant of the timestamp
C7_Witness ==
    /\ mode = "assess" /\ pc = "done" /\ Len(log) = 4
    /\ log[4].ended > timestamp
    /\ log[1].started = timestamp

\* C8: every row carries accessible, total_available, issues and a
\* data_quality_score within [0,100]; total_available is 0 when the row is
\* inaccessible or the response was no Bundle, and the Bundle's declared total
\* otherwise.
C8_RowShape ==
    mode = "assess" =>
        \A i \in 1..Len(rows) :
            LET row  == rows[i].value
                body == _request(log[i].exchange).value
            IN  /\ { "accessible", "total_available", "issues", "data_quality_score" }
                       \subseteq row.keys
                /\ row.data_quality_score \in 0..100
                /\ IF ~row.accessible \/ body.resourceType # "Bundle"
                   THEN row.total_available = Num(0)
                   ELSE row.total_available =
                           (IF body.total.k = "absent" THEN Num(0) ELSE body.total)

\* C9: for every result the classifier returns: is_valid is false exactly for
\* an OperationOutcome; the data-quality facts are populated exactly for a
\* Bundle; never both; and for a Bundle the facts' total is the declared total
\* (0 when absent) and the returned count is the length of the entry list.
C9_ValidationInvariant ==
    (mode = "classify" /\ pc \in { "validated", "scored" }) =>
        /\ validation.is_valid = FALSE <=> response.resourceType = "OperationOutcome"
        /\ validation.data_quality.present <=> response.resourceType = "Bundle"
        /\ ~(validation.is_valid = FALSE /\ validation.data_quality.present)
        /\ response.resourceType = "Bundle" =>
              /\ validation.data_quality.total_resources =
                    (IF response.total.k = "absent" THEN Num(0) ELSE response.total)
              /\ validation.data_quality.returned_resources = Len(response.entry.v)

\* C9 witness: a classified Bundle that declares a total of 2 and returns one entry
C9_Witness ==
    /\ mode = "classify" /\ pc = "validated"
    /\ response.resourceType = "Bundle"
    /\ response.total = Num(2) /\ Len(response.entry.v) = 1
    /\ validation.data_quality.present

LastSeverity == validation.issues[Len(validation.issues)].severity

\* C10: the score is within [0,100]; it is 0 for every invalid result; it does
\* not rise when an issue is appended; and appending one issue to a valid
\* Bundle result with a non-zero total lowers it by exactly 30 for 'error', 10
\* for 'warning' and 0 for any other severity, floored at 0.
C10_IssueDeductions ==
    (mode = "score" /\ pc = "scored") =>
        /\ score \in 0..100
        /\ ~validation.is_valid => score = 0
        /\ prev_score # NoScore =>
              /\ score <= prev_score
              /\ (validation.is_valid /\ validation.data_quality.present
                    /\ validation.data_quality.total_resources # Num(0)) =>
                    score = Max(0, prev_score - (IF LastSeverity = "error" THEN 30
                                                 ELSE IF LastSeverity = "warning" THEN 10
                                                 ELSE 0))

\* C10 witness: a valid Bundle result with a non-zero total whose score of 10
\* was floored at 0 by a fourth 'error' issue
C10_Witness ==
    /\ mode = "score" /\ pc = "scored"
    /\ validation.is_valid /\ validation.data_quality.present
    /\ validation.data_quality.total_resources = Num(2)
    /\ Len(validation.issues) = 4 /\ LastSeverity = "error"
    /\ prev_score = 10 /\ score = 0

====
